---------------------------- MODULE Spec2Model ----------------------------
(***************************************************************************)
(* Model of easy_llm_tools: JSON canonicalisation (_json_utils.py), the    *)
(* tool scanner (_tools_finder.py) and tool dispatch (llm_tools.py).       *)
(*                                                                         *)
(* Text is a sequence of characters.  A character is a one-element string; *)
(* the words true, false and null and each list placeholder               *)
(* (__JSON_LIST_PLACEHOLDER_<hex>__) stand as one character each.          *)
(* A Python value is a record [t, v]: t its type, v its content.           *)
(***************************************************************************)
EXTENDS Integers, Sequences, FiniteSets, TLC

VARIABLES
    no_throw,       \* VerboseSettings.no_throw of the call under way
    json_text,      \* prettify_json: the input text
    rng,            \* prettify_json: where the uuid4 stream starts
    jresult,        \* prettify_json: [kind, value] once it has returned or raised
    jpc,            \* prettify_json: "idle" | "start" | "done"
    args,           \* find_tools_json: its arguments as passed
    prefix,         \* find_tools_json: prefix after line 106 (None is "")
    suffix,         \* find_tools_json: suffix after line 116
    validate,       \* find_tools_json: validate after line 133
    tools,          \* find_tools_json: the registry under construction
    stack,          \* find_tools_json: the work stack of <<directory, depth>>
    cur,            \* find_tools_json: <<current_dir, depth>> of the listing
    entries,        \* find_tools_json: entries of the listing not yet iterated
    spc,            \* find_tools_json: "idle" | "start" | "loop" | "for" |
                    \*   "returned" | "raised"
    sresult,        \* find_tools_json: the dict returned or the error raised
    diag,           \* messages handed to print_verbose at level LOW
    hist,           \* what the scan has done so far (observation only)
    call,           \* run_tool: its arguments [tool_call, tool_name, tool_args]
    resolved,       \* run_tool: parsed_name and parsed_args, and which path
                    \*   set them (observation only)
    invoked,        \* run_tool: the runner calls made, <<runner, kwargs>>
    rresult,        \* run_tool: the value returned or the error raised
    rpc,            \* run_tool: "idle" | "start" | "done"
    self,           \* the LlmTools object: [tools, constructed]
    life            \* the calls made on the object: how many, the last one,
                    \*   what get_tool_definitions returned

jvars == <<json_text, rng, jresult, jpc>>

svars == <<args, prefix, suffix, validate, tools, stack, cur, entries, spc,
           sresult, diag, hist>>

rvars == <<call, resolved, invoked, rresult, rpc>>

lvars == <<self, life>>

vars == <<no_throw, jvars, svars, rvars, lvars>>

---------------------------------------------------------------------------
(* Characters *)

Q == "\""
BS == "\\"
NL == "\n"
SP == " "

Digits == <<"0", "1", "2", "3", "4", "5", "6", "7", "8", "9">>

IsDigit(c) == \E i \in 1..10 : Digits[i] = c

DigitValue(c) == (CHOOSE i \in 1..10 : Digits[i] = c) - 1

Range(s) == {s[i] : i \in 1..Len(s)}

---------------------------------------------------------------------------
(* Python values *)

PyNone == [t |-> "null", v |-> <<>>]
PyBool(b) == [t |-> "bool", v |-> <<b>>]
PyInt(n) == [t |-> "num", v |-> <<n>>]
PyStr(s) == [t |-> "str", v |-> s]
PyList(xs) == [t |-> "arr", v |-> xs]
PyDict(ps) == [t |-> "obj", v |-> ps]

IsNone(x) == x.t = "null"
IsStr(x) == x.t = "str"
IsList(x) == x.t = "arr"
IsDict(x) == x.t = "obj"

\* dict[key] = val: an existing key keeps its place, a new key goes last.
DictSet(ps, key, val) ==
    IF \E i \in 1..Len(ps) : ps[i][1] = key
    THEN [i \in 1..Len(ps) |-> IF ps[i][1] = key THEN <<key, val>> ELSE ps[i]]
    ELSE Append(ps, <<key, val>>)

HasKey(d, key) == \E i \in 1..Len(d.v) : d.v[i][1] = key

\* dict.get(key, None)
DictGet(d, key) ==
    IF HasKey(d, key)
    THEN d.v[CHOOSE i \in 1..Len(d.v) : d.v[i][1] = key][2]
    ELSE PyNone

---------------------------------------------------------------------------
(* json.loads *)

ParseFail == [ok |-> FALSE, val |-> PyNone, pos |-> 0]

ParseOk(val, pos) == [ok |-> TRUE, val |-> val, pos |-> pos]

RECURSIVE SkipWs(_, _)
SkipWs(text, i) ==
    IF i <= Len(text) /\ text[i] \in {SP, NL} THEN SkipWs(text, i + 1) ELSE i

\* The body of a string literal, from the character after the opening quote.
RECURSIVE ParseString(_, _, _)
ParseString(text, i, acc) ==
    IF i > Len(text) THEN ParseFail
    ELSE IF text[i] = Q THEN ParseOk(acc, i + 1)
    ELSE IF text[i] = NL THEN ParseFail
    ELSE IF text[i] = BS
         THEN IF i + 1 <= Len(text) /\ text[i + 1] \in {Q, BS}
              THEN ParseString(text, i + 2, Append(acc, text[i + 1]))
              ELSE ParseFail
    ELSE ParseString(text, i + 1, Append(acc, text[i]))

RECURSIVE ParseDigits(_, _, _)
ParseDigits(text, i, acc) ==
    IF i <= Len(text) /\ IsDigit(text[i])
    THEN ParseDigits(text, i + 1, acc * 10 + DigitValue(text[i]))
    ELSE ParseOk(PyInt(acc), i)

ParseNumber(text, i) ==
    IF text[i] = "0" /\ i + 1 <= Len(text) /\ IsDigit(text[i + 1])
    THEN ParseFail
    ELSE ParseDigits(text, i, 0)

RECURSIVE ParseValue(_, _)
RECURSIVE ParseElems(_, _, _)
RECURSIVE ParseMembers(_, _, _)

\* The elements of an array, from the first character of an element.
ParseElems(text, i, acc) ==
    LET r == ParseValue(text, i) IN
    IF ~r.ok THEN ParseFail
    ELSE LET j == SkipWs(text, r.pos)
             xs == Append(acc, r.val) IN
         IF j > Len(text) THEN ParseFail
         ELSE IF text[j] = "]" THEN ParseOk(PyList(xs), j + 1)
         ELSE IF text[j] = "," THEN ParseElems(text, SkipWs(text, j + 1), xs)
         ELSE ParseFail

\* The members of an object, from the opening quote of a key.
ParseMembers(text, i, acc) ==
    IF i > Len(text) \/ text[i] # Q THEN ParseFail
    ELSE LET k == ParseString(text, i + 1, <<>>) IN
         IF ~k.ok THEN ParseFail
         ELSE LET c == SkipWs(text, k.pos) IN
              IF c > Len(text) \/ text[c] # ":" THEN ParseFail
              ELSE LET r == ParseValue(text, SkipWs(text, c + 1)) IN
                   IF ~r.ok THEN ParseFail
                   ELSE LET j == SkipWs(text, r.pos)
                            ps == DictSet(acc, k.val, r.val) IN
                        IF j > Len(text) THEN ParseFail
                        ELSE IF text[j] = "}" THEN ParseOk(PyDict(ps), j + 1)
                        ELSE IF text[j] = ","
                             THEN ParseMembers(text, SkipWs(text, j + 1), ps)
                        ELSE ParseFail

ParseValue(text, i) ==
    IF i > Len(text) THEN ParseFail
    ELSE IF text[i] = "null" THEN ParseOk(PyNone, i + 1)
    ELSE IF text[i] = "true" THEN ParseOk(PyBool(TRUE), i + 1)
    ELSE IF text[i] = "false" THEN ParseOk(PyBool(FALSE), i + 1)
    ELSE IF IsDigit(text[i]) THEN ParseNumber(text, i)
    ELSE IF text[i] = Q
         THEN LET s == ParseString(text, i + 1, <<>>) IN
              IF s.ok THEN ParseOk(PyStr(s.val), s.pos) ELSE ParseFail
    ELSE IF text[i] = "["
         THEN LET j == SkipWs(text, i + 1) IN
              IF j <= Len(text) /\ text[j] = "]"
              THEN ParseOk(PyList(<<>>), j + 1)
              ELSE ParseElems(text, j, <<>>)
    ELSE IF text[i] = "{"
         THEN LET j == SkipWs(text, i + 1) IN
              IF j <= Len(text) /\ text[j] = "}"
              THEN ParseOk(PyDict(<<>>), j + 1)
              ELSE ParseMembers(text, j, <<>>)
    ELSE ParseFail

\* The whole text must be one value, white space around it allowed.
WholeText(text, r) ==
    IF r.ok /\ SkipWs(text, r.pos) > Len(text)
    THEN [ok |-> TRUE, val |-> r.val]
    ELSE [ok |-> FALSE, val |-> PyNone]

\* json.loads(text): [ok, val]; ok is FALSE where json.loads raises.
json_loads(text) == WholeText(text, ParseValue(text, SkipWs(text, 1)))

---------------------------------------------------------------------------
(* json.dumps *)

RECURSIVE IntDigits(_)
IntDigits(n) ==
    IF n < 10 THEN <<Digits[n + 1]>>
    ELSE IntDigits(n \div 10) \o <<Digits[(n % 10) + 1]>>

\* The content of a string literal: quote and backslash are escaped
\* (ensure_ascii=False leaves every other character of the model as it is).
RECURSIVE EscapeChars(_)
EscapeChars(s) ==
    IF s = <<>> THEN <<>>
    ELSE (IF Head(s) \in {Q, BS} THEN <<BS, Head(s)>> ELSE <<Head(s)>>)
         \o EscapeChars(Tail(s))

DumpStr(s) == <<Q>> \o EscapeChars(s) \o <<Q>>

RECURSIVE Spaces(_)
Spaces(n) == IF n <= 0 THEN <<>> ELSE <<SP>> \o Spaces(n - 1)

\* newline_indent of the encoder: nothing without indent, else a newline and
\* indent * level spaces.
NewlineIndent(indent, level) ==
    IF indent < 0 THEN <<>> ELSE <<NL>> \o Spaces(indent * level)

RECURSIVE Encode(_, _, _, _)
RECURSIVE EncodeElems(_, _, _, _, _)
RECURSIVE EncodeMembers(_, _, _, _, _)

EncodeElems(xs, i, indent, keysep, level) ==
    IF i > Len(xs) THEN <<>>
    ELSE (IF i > 1 THEN <<",">> \o NewlineIndent(indent, level) ELSE <<>>)
         \o Encode(xs[i], indent, keysep, level)
         \o EncodeElems(xs, i + 1, indent, keysep, level)

EncodeMembers(ps, i, indent, keysep, level) ==
    IF i > Len(ps) THEN <<>>
    ELSE (IF i > 1 THEN <<",">> \o NewlineIndent(indent, level) ELSE <<>>)
         \o DumpStr(ps[i][1]) \o keysep
         \o Encode(ps[i][2], indent, keysep, level)
         \o EncodeMembers(ps, i + 1, indent, keysep, level)

\* One value at nesting depth `level` (the depth of its own items is level + 1).
Encode(x, indent, keysep, level) ==
    CASE x.t = "null" -> <<"null">>
      [] x.t = "bool" -> IF x.v[1] THEN <<"true">> ELSE <<"false">>
      [] x.t = "num" -> IntDigits(x.v[1])
      [] x.t = "str" -> DumpStr(x.v)
      [] x.t = "arr" ->
            IF x.v = <<>> THEN <<"[", "]">>
            ELSE <<"[">> \o NewlineIndent(indent, level + 1)
                 \o EncodeElems(x.v, 1, indent, keysep, level + 1)
                 \o NewlineIndent(indent, level) \o <<"]">>
      [] x.t = "obj" ->
            IF x.v = <<>> THEN <<"{", "}">>
            ELSE <<"{">> \o NewlineIndent(indent, level + 1)
                 \o EncodeMembers(x.v, 1, indent, keysep, level + 1)
                 \o NewlineIndent(indent, level) \o <<"}">>

\* json.dumps(x, ensure_ascii=False, indent=indent, separators=(",", keysep));
\* indent = -1 stands for indent=None.
json_dumps(x, indent, keysep) == Encode(x, indent, keysep, 0)

---------------------------------------------------------------------------
(* _utils.py *)

\* A mutant of return_or_raise: no_throw is not looked at.
return_or_raise_always(nt, return_value, exception) ==
    [kind |-> "raise", value |-> exception]

\* return_or_raise(no_throw, return_value=..., exception_factory=...)
return_or_raise(nt, return_value, exception) ==
    IF nt THEN [kind |-> "return", value |-> return_value]
    ELSE [kind |-> "raise", value |-> exception]

---------------------------------------------------------------------------
(* _json_utils.py *)

\* is_valid_json(json_str, no_throw) for a str: the tuple it returns, or the
\* json.loads error it re-raises when no_throw is False.
ValidJsonResult(r, nt) ==
    IF r.ok
    THEN [kind |-> "return", ok |-> TRUE, parsed |-> r.val, error |-> "none"]
    ELSE IF nt
         THEN [kind |-> "return", ok |-> FALSE, parsed |-> PyNone,
               error |-> "JSONDecodeError"]
         ELSE [kind |-> "raise", ok |-> FALSE, parsed |-> PyNone,
               error |-> "JSONDecodeError"]

is_valid_json(json_str, nt) == ValidJsonResult(json_loads(json_str), nt)

\* Number of uuid4 streams tried.
MaxStreams == 2

\* The placeholder names uuid4 can produce (stand-ins for the hex suffixes).
TokenPool == <<"T1", "T2", "T3", "T4", "T5", "T6", "T7", "T8">>

\* The i-th uuid4 draw of a stream that starts at offset k.
UuidDraw(k, i) == TokenPool[((k + i - 2) % Len(TokenPool)) + 1]

PlaceholderKeys(placeholders) ==
    {placeholders[i][1] : i \in 1..Len(placeholders)}

\* A mutant of generate_unique_token: no check against the input text.
generate_unique_token_unchecked(text, placeholders, k) ==
    UuidDraw(k, CHOOSE i \in 1..Len(TokenPool) :
        /\ UuidDraw(k, i) \notin PlaceholderKeys(placeholders)
        /\ \A j \in 1..(i - 1) :
              UuidDraw(k, j) \in PlaceholderKeys(placeholders))

\* generate_unique_token(): draw until the token occurs neither in json_text
\* nor among the placeholders.
generate_unique_token(text, placeholders, k) ==
    LET Taken(tok) == tok \in Range(text) \/ tok \in PlaceholderKeys(placeholders)
    IN UuidDraw(k, CHOOSE i \in 1..Len(TokenPool) :
           /\ ~Taken(UuidDraw(k, i))
           /\ \A j \in 1..(i - 1) : Taken(UuidDraw(k, j)))

list_to_single_line_json(value) == json_dumps(value, -1, <<":">>)

\* replace_lists_with_placeholders(value), with the placeholders dict it
\* fills threaded through: [val, ph], ph the dict as a sequence of
\* <<token, one-line text>> in insertion order.
RECURSIVE replace_lists_with_placeholders(_, _, _, _)
RECURSIVE ReplaceInMembers(_, _, _, _, _, _)

ReplaceInMembers(ps, i, acc, placeholders, text, k) ==
    IF i > Len(ps) THEN [val |-> PyDict(acc), ph |-> placeholders]
    ELSE LET r == replace_lists_with_placeholders(ps[i][2], placeholders, text, k)
         IN ReplaceInMembers(ps, i + 1, DictSet(acc, ps[i][1], r.val),
                             r.ph, text, k)

replace_lists_with_placeholders(value, placeholders, text, k) ==
    IF IsList(value)
    THEN LET token == generate_unique_token(text, placeholders, k) IN
         [val |-> PyStr(<<token>>),
          ph |-> Append(placeholders,
                        <<token, list_to_single_line_json(value)>>)]
    ELSE IF IsDict(value)
    THEN ReplaceInMembers(value.v, 1, <<>>, placeholders, text, k)
    ELSE [val |-> value, ph |-> placeholders]

IsPrefixAt(text, i, pat) ==
    /\ i + Len(pat) - 1 <= Len(text)
    /\ \A j \in 1..Len(pat) : text[i + j - 1] = pat[j]

\* str.replace(old, new): every occurrence of old, left to right, not
\* overlapping.
RECURSIVE StrReplace(_, _, _, _)
StrReplace(text, i, old, new) ==
    IF i > Len(text) THEN <<>>
    ELSE IF IsPrefixAt(text, i, old)
         THEN new \o StrReplace(text, i + Len(old), old, new)
         ELSE <<text[i]>> \o StrReplace(text, i + 1, old, new)

\* for token, one_line_list_json in placeholders.items(): replace the quoted
\* token by the one-line list.
RECURSIVE SplicePlaceholders(_, _, _)
SplicePlaceholders(pretty_text, placeholders, i) ==
    IF i > Len(placeholders) THEN pretty_text
    ELSE SplicePlaceholders(
            StrReplace(pretty_text, 1, <<Q, placeholders[i][1], Q>>,
                       placeholders[i][2]),
            placeholders, i + 1)

\* Lines 135-150: the transformed object is dumped with indent=1 and the
\* placeholders are spliced.
PrettyText(transformed) ==
    SplicePlaceholders(json_dumps(transformed.val, 1, <<":", SP>>),
                       transformed.ph, 1)

\* Lines 88-150, `valid` being what is_valid_json gave.
PrettifyValid(text, nt, k, valid) ==
    IF valid.kind = "raise"
    THEN [kind |-> "raise", value |-> <<valid.error>>]
    ELSE IF ~valid.ok
    THEN return_or_raise(nt, text, <<"RuntimeError">>)
    ELSE [kind |-> "return",
          value |-> PrettyText(
              replace_lists_with_placeholders(valid.parsed, <<>>, text, k))]

\* prettify_json(json_text, verbose_settings) for a str json_text:
\* [kind, value], a returned text or a raised error.
prettify_json(text, nt, k) ==
    PrettifyValid(text, nt, k, is_valid_json(text, nt))

---------------------------------------------------------------------------
(* The directory tree that is scanned *)

\* Largest max_depth argument tried.
MaxDepthArg == 2

MAX_TOOL_FILE_SIZE_BYTES == 1048576

SmallFileSize == MAX_TOOL_FILE_SIZE_BYTES - 1

PyExt == <<".", "p", "y">>

\* Each file: the directory that lists it, its name, its size in bytes, what
\* executing it does and the TOOL_DEFINITION it binds.
\*   content "tool": binds tool_run (a callable) and TOOL_DEFINITION (a str)
\*   content "raises": its top-level code raises
\*   content "no_runner": binds no callable tool_run
\*   content "def_not_str": TOOL_DEFINITION is not a str
\*   stat "fails": stat() on it raises
ValidDef1 == <<"{", Q, "n", Q, ":", SP, "[", "1", ",", SP, "2", "]", "}">>
ValidDef2 == <<"{", Q, "m", Q, ":", "{", Q, "k", Q, ":", "[", "]", "}", "}">>
InvalidDef == <<"{", Q, "n", Q, ":">>

File(dir, name, size, content, definition) ==
    [kind |-> "file", dir |-> dir, name |-> name, size |-> size,
     content |-> content, definition |-> definition, stat |-> "ok"]

Files ==
    [f1 |-> File("base", <<"a", "b", "x", "b", "c">> \o PyExt,
                 SmallFileSize, "tool", ValidDef1),
     f2 |-> File("base", <<"a", "b", "c">> \o PyExt,
                 SmallFileSize, "tool", ValidDef1),
     f3 |-> File("base", <<"a", "b", "b", "c">> \o PyExt,
                 SmallFileSize, "tool", ValidDef1),
     f4 |-> File("base", <<"a", "b", "y", "b", "c">> \o PyExt,
                 MAX_TOOL_FILE_SIZE_BYTES + 1, "tool", ValidDef1),
     f5 |-> File("base", <<"a", "b", "z", "b", "c">> \o PyExt,
                 MAX_TOOL_FILE_SIZE_BYTES, "tool", ValidDef2),
     f6 |-> File("base", <<"a", "b", "x", "b", "c", ".", "t">>,
                 SmallFileSize, "tool", ValidDef1),
     g1 |-> File("d1", <<"a", "b", "x", "b", "c">> \o PyExt,
                 SmallFileSize, "tool", ValidDef2),
     g2 |-> File("d1", <<"a", "b", "i", "b", "c">> \o PyExt,
                 SmallFileSize, "raises", ValidDef1),
     g3 |-> File("d1", <<"a", "b", "r", "b", "c">> \o PyExt,
                 SmallFileSize, "no_runner", ValidDef1),
     g4 |-> File("d1", <<"a", "b", "n", "b", "c">> \o PyExt,
                 SmallFileSize, "def_not_str", ValidDef1),
     g5 |-> File("d1", <<"a", "b", "j", "b", "c">> \o PyExt,
                 SmallFileSize, "tool", InvalidDef),
     h1 |-> File("d2", <<"a", "b", "w", "b", "c">> \o PyExt,
                 SmallFileSize, "tool", ValidDef1),
     h2 |-> [File("d2", <<"a", "b", "s", "b", "c">> \o PyExt,
                  SmallFileSize, "tool", ValidDef1) EXCEPT !.stat = "fails"],
     k1 |-> File("d3", <<"a", "b", "v", "b", "c">> \o PyExt,
                 MAX_TOOL_FILE_SIZE_BYTES + 1, "tool", ValidDef1),
     k2 |-> File("d3", <<"a", "b", "x", "b", "c">> \o PyExt,
                 SmallFileSize, "tool", ValidDef1),
     m1 |-> File("d4", <<"a", "b", "u", "b", "c">> \o PyExt,
                 SmallFileSize, "tool", ValidDef1)]

FileIds == DOMAIN Files

\* Each directory entry that is not a regular file: the directory that lists
\* it and what it is.  lnk is a symbolic link to base; dx cannot be listed;
\* sock is neither a directory nor a regular file.
Others ==
    [d1 |-> [kind |-> "dir", dir |-> "base"],
     dx |-> [kind |-> "unreadable_dir", dir |-> "base"],
     d2 |-> [kind |-> "dir", dir |-> "d1"],
     lnk |-> [kind |-> "symlink_dir", dir |-> "d1"],
     sock |-> [kind |-> "other", dir |-> "d2"],
     d3 |-> [kind |-> "dir", dir |-> "d2"],
     d4 |-> [kind |-> "dir", dir |-> "d3"]]

EntryIds == FileIds \cup DOMAIN Others

Entry(e) == IF e \in FileIds THEN Files[e] ELSE Others[e]

\* Where a path leads: a symbolic link leads to its target.
Resolve(d) == IF d = "lnk" THEN "base" ELSE d

\* list(current_dir.iterdir())
iterdir(d) == {e \in EntryIds : Entry(e).dir = Resolve(d)}

is_dir(e) == Entry(e).kind \in {"dir", "unreadable_dir", "symlink_dir"}
\* A mutant of is_symlink: no entry counts as a symbolic link.
is_symlink_never(e) == FALSE

is_symlink(e) == Entry(e).kind = "symlink_dir"
is_file(e) == Entry(e).kind = "file"
\* A mutant of CanList: every directory can be listed.
CanListAlways(d) == TRUE

CanList(d) == d = "base" \/ Entry(d).kind # "unreadable_dir"

\* The number of directories between the base directory and entry e.
RECURSIVE DepthOf(_)
DepthOf(d) == IF d = "base" THEN 0 ELSE 1 + DepthOf(Entry(d).dir)

\* The base_dir arguments tried: the tree, a path that does not exist, a
\* path to a regular file.
BaseDirs == {"base", "missing", "f1"}

---------------------------------------------------------------------------
(* pathlib and str *)

\* Index of the last "." of name, 0 if none.
LastDot(name) ==
    IF \E i \in 1..Len(name) : name[i] = "."
    THEN CHOOSE i \in 1..Len(name) :
            name[i] = "." /\ \A j \in (i + 1)..Len(name) : name[j] # "."
    ELSE 0

\* PurePath.suffix: from the last dot, unless the name starts or ends with it.
PathSuffix(name) ==
    LET i == LastDot(name) IN
    IF 1 < i /\ i < Len(name) THEN SubSeq(name, i, Len(name)) ELSE <<>>

\* PurePath.stem
PathStem(name) ==
    LET i == LastDot(name) IN
    IF 1 < i /\ i < Len(name) THEN SubSeq(name, 1, i - 1) ELSE name

startswith(s, p) == Len(p) <= Len(s) /\ SubSeq(s, 1, Len(p)) = p

endswith(s, p) ==
    Len(p) <= Len(s) /\ SubSeq(s, Len(s) - Len(p) + 1, Len(s)) = p

---------------------------------------------------------------------------
(* _tools_finder.py: find_tools_json *)

EmptyDict == [n \in {} |-> 0]

\* d[key] = val
DictPut(d, key, val) ==
    [n \in DOMAIN d \cup {key} |-> IF n = key THEN val ELSE d[n]]

Error(type, about) == [type |-> type, about |-> about]

NoError == Error("none", "none")

\* Lines 229-230: the stem starts with the prefix and ends with the suffix.
NameMatches(stem, pre, suf) == startswith(stem, pre) /\ endswith(stem, suf)

\* A mutant of HasMiddle: a stem as long as prefix plus suffix passes.
HasMiddleOffByOne(stem, pre, suf) == ~(Len(stem) < Len(pre) + Len(suf))

\* Lines 233-239: something is left between prefix and suffix.
HasMiddle(stem, pre, suf) == ~(Len(stem) <= Len(pre) + Len(suf))

\* Lines 224-241: the file passes the name filter.
IsCandidate(name, pre, suf) ==
    /\ PathSuffix(name) = PyExt
    /\ NameMatches(PathStem(name), pre, suf)
    /\ HasMiddle(PathStem(name), pre, suf)

\* A mutant of TooBig: the ceiling itself is rejected.
TooBigInclusive(size) == size >= MAX_TOOL_FILE_SIZE_BYTES

\* Line 258
TooBig(size) == size > MAX_TOOL_FILE_SIZE_BYTES

\* Lines 268-270: stem[len(prefix):], then [:-len(suffix)] if suffix.
ModuleName(stem, pre, suf) ==
    LET rest == SubSeq(stem, Len(pre) + 1, Len(stem)) IN
    IF suf # <<>> THEN SubSeq(rest, 1, Len(rest) - Len(suf)) ELSE rest

\* A mutant of DepthReached: one level too deep.
DepthReachedLate(depth, max_depth) == depth > max_depth

\* A mutant of DepthReached: the depth is never looked at.
DepthReachedNever(depth, max_depth) == FALSE

\* Line 206
DepthReached(depth, max_depth) == depth >= max_depth

\* Lines 272-278: executing the file.
LoadModule(e) ==
    IF Entry(e).content = "raises" THEN Error("ImportFailure", e) ELSE NoError

\* A mutant of ExtractChecked: the definition is not checked to be JSON.
ExtractUnchecked(e, f, prettify, val, checked, pretty) ==
    IF f.content = "no_runner"
    THEN [error |-> Error("AttributeError", e), description |-> <<>>]
    ELSE IF f.content = "def_not_str"
    THEN [error |-> Error("TypeError", e), description |-> <<>>]
    ELSE [error |-> NoError,
          description |-> IF prettify /\ pretty.kind = "return"
                          THEN pretty.value ELSE f.definition]

\* Lines 292-311: tool_run and TOOL_DEFINITION of the loaded module, the
\* description validated and prettified as asked: [error, description].
\* `checked` is what is_valid_json gives for the definition, `pretty` what
\* prettify_json gives.
ExtractChecked(e, f, prettify, val, checked, pretty) ==
    IF f.content = "no_runner"
    THEN [error |-> Error("AttributeError", e), description |-> <<>>]
    ELSE IF f.content = "def_not_str"
    THEN [error |-> Error("TypeError", e), description |-> <<>>]
    ELSE IF (val \/ prettify) /\ checked.kind = "raise"
    THEN [error |-> Error(checked.error, e), description |-> <<>>]
    ELSE IF (val \/ prettify) /\ ~checked.ok
    THEN [error |-> Error("ValueError", e), description |-> <<>>]
    ELSE IF prettify /\ pretty.kind = "raise"
    THEN [error |-> Error(pretty.value[1], e), description |-> <<>>]
    ELSE [error |-> NoError,
          description |-> IF prettify THEN pretty.value ELSE f.definition]

ExtractFields(e, prettify, val, nt, k) ==
    ExtractChecked(e, Entry(e), prettify, val,
                   is_valid_json(Entry(e).definition, nt),
                   prettify_json(Entry(e).definition, nt, k))

\* ExtractFields of every file under every setting, worked out once.
Extracted ==
    [e \in FileIds, p \in BOOLEAN, val \in BOOLEAN, nt \in BOOLEAN,
     k \in 1..MaxStreams |-> ExtractFields(e, p, val, nt, k)]

\* A mutant of Register: an entry already present is kept.
RegisterFirstWins(registry, name, entry) ==
    IF name \in DOMAIN registry THEN registry
    ELSE DictPut(registry, name, entry)

\* Lines 335-338: tools[module_name] = {...}
Register(registry, name, entry) == DictPut(registry, name, entry)

ToolEntry(description, runner) ==
    [description |-> description, runner |-> runner]

\* A mutant of Reraise: the error goes to the caller whatever no_throw is.
ReraiseAlways(nt, err) == err

\* if not verbose_settings.no_throw: raise  (lines 253-254, 286-287, 323-324)
Reraise(nt, err) == IF nt THEN NoError ELSE err

\* What one pass of the for loop (lines 195-345) does with entry e of a
\* listing at depth `depth`:
\*   push: e goes on the stack          matched: e passed the name filter
\*   loaded: e was executed             accept: e is registered under name
\*   error: the error raised to the caller of find_tools_json, if any
\*   msgs: the LOW messages printed
\* `got` is what lines 292-311 give for e.
LoopBodyOf(e, depth, max_depth, pre, suf, nt, registry, got) ==
    LET f == Entry(e)
        skip == [push |-> FALSE, matched |-> FALSE, loaded |-> FALSE,
                 accept |-> FALSE, name |-> <<>>, description |-> <<>>,
                 error |-> NoError, msgs |-> {}]
        name == ModuleName(PathStem(f.name), pre, suf)
        load == LoadModule(e)
    IN
    IF is_dir(e)
    THEN IF is_symlink(e) THEN skip
         ELSE IF DepthReached(depth, max_depth) THEN skip
         ELSE [skip EXCEPT !.push = TRUE]
    ELSE IF ~is_file(e) THEN skip
    ELSE IF ~IsCandidate(f.name, pre, suf) THEN skip
    ELSE IF f.stat = "fails"
    THEN [skip EXCEPT !.matched = TRUE,
                      !.error = Reraise(nt, Error("OSError", e))]
    ELSE IF TooBig(f.size)
    THEN [skip EXCEPT !.matched = TRUE, !.msgs = {<<"Skipping file >1MB", e>>}]
    ELSE IF load # NoError
    THEN [skip EXCEPT !.matched = TRUE, !.loaded = TRUE,
                      !.error = Reraise(nt, load),
                      !.msgs = {<<"Import failed", e>>}]
    ELSE IF got.error # NoError
    THEN [skip EXCEPT !.matched = TRUE, !.loaded = TRUE,
                      !.error = Reraise(nt, got.error),
                      !.msgs = {<<"Skipping", e>>}]
    ELSE [skip EXCEPT !.matched = TRUE, !.loaded = TRUE, !.accept = TRUE,
                      !.name = name, !.description = got.description,
                      !.msgs = IF name \in DOMAIN registry
                               THEN {<<"Overwriting", name>>} ELSE {}]

LoopBody(e, depth, max_depth, pre, suf, prettify, val, nt, k, registry) ==
    LoopBodyOf(e, depth, max_depth, pre, suf, nt, registry,
               IF e \in FileIds THEN Extracted[e, prettify, val, nt, k]
               ELSE [error |-> NoError, description |-> <<>>])

---------------------------------------------------------------------------
(* llm_tools.py: LlmTools.run_tool *)

\* The payload fields, as characters.
Chars_name == <<"n", "a", "m", "e">>
Chars_function_name ==
    <<"f", "u", "n", "c", "t", "i", "o", "n", "_">> \o Chars_name
Chars_parameters == <<"p", "a", "r", "a", "m", "e", "t", "e", "r", "s">>
Chars_arguments == <<"a", "r", "g", "u", "m", "e", "n", "t", "s">>

\* An error of run_tool: its type, its message and what the message names.
RunError(type, msg, detail) == [type |-> type, msg |-> msg, detail |-> detail]

NoRunError == RunError("none", "none", <<>>)

\* bool(s.strip()) is False: s holds white space only.
IsBlank(s) == \A i \in 1..Len(s) : s[i] \in {SP, NL}

Unresolved == [by |-> "none", name |-> PyNone, args |-> PyNone]

\* try: json.loads(text) except Exception: None
ValueOrNone(r) == IF r.ok THEN r.val ELSE PyNone

\* Lines 201-207: the payload of a tool_call that is a str or a dict.
PayloadOf(tool_call) ==
    IF IsStr(tool_call) THEN ValueOrNone(json_loads(tool_call.v))
    ELSE tool_call

\* Lines 211-215: a list of one dict is that dict, any other list is None.
Unwrap(payload) ==
    IF IsList(payload)
    THEN (IF Len(payload.v) = 1 /\ IsDict(payload.v[1]) THEN payload.v[1]
          ELSE PyNone)
    ELSE payload

\* x if x is not None, else y
OrElse(x, y) == IF IsNone(x) THEN y ELSE x

\* Lines 219-221
CandidateName(payload) ==
    OrElse(DictGet(payload, Chars_name), DictGet(payload, Chars_function_name))

\* A mutant of CandidateArgs: "arguments" is tried before "parameters".
CandidateArgsSwapped(payload) ==
    OrElse(OrElse(DictGet(payload, Chars_arguments),
                  DictGet(payload, Chars_parameters)),
           PyDict(<<>>))

\* Lines 224-230
CandidateArgs(payload) ==
    OrElse(OrElse(DictGet(payload, Chars_parameters),
                  DictGet(payload, Chars_arguments)),
           PyDict(<<>>))

\* Lines 233-237: args given as a str are decoded, None if that fails.
DecodeArgs(candidate_args) ==
    IF IsStr(candidate_args) THEN ValueOrNone(json_loads(candidate_args.v))
    ELSE candidate_args

\* A mutant of Accept: the arguments are not looked at.
AcceptAnyArgs(candidate_name, candidate_args) ==
    IF IsStr(candidate_name) /\ ~IsBlank(candidate_name.v)
    THEN [by |-> "structured", name |-> candidate_name, args |-> candidate_args]
    ELSE Unresolved

\* Lines 239-242
Accept(candidate_name, candidate_args) ==
    IF IsStr(candidate_name) /\ ~IsBlank(candidate_name.v)
       /\ IsDict(candidate_args)
    THEN [by |-> "structured", name |-> candidate_name, args |-> candidate_args]
    ELSE Unresolved

\* Lines 200-242: parsed_name and parsed_args from a tool_call that is a str
\* or a dict.
FromPayload(payload) ==
    IF IsDict(payload)
    THEN Accept(CandidateName(payload), DecodeArgs(CandidateArgs(payload)))
    ELSE Unresolved

Structured(tool_call) == FromPayload(Unwrap(PayloadOf(tool_call)))

\* Lines 191-198: a tool_call that is neither None, a str nor a dict.
BadToolCallType(tool_call) ==
    ~IsNone(tool_call) /\ ~IsStr(tool_call) /\ ~IsDict(tool_call)

\* Lines 245-276: the error of the fallback path, if any.
FallbackError(tool_name, tool_args) ==
    IF IsNone(tool_name)
    THEN RunError("ValueError", "Unknown tool-call format", <<>>)
    ELSE IF ~IsStr(tool_name) \/ IsBlank(tool_name.v)
    THEN RunError("TypeError", "tool_name must be a non-empty str", <<>>)
    ELSE IF ~IsNone(tool_args) /\ ~IsDict(tool_args)
    THEN RunError("TypeError", "tool_args must be a dict or None", <<>>)
    ELSE NoRunError

\* Lines 264-276
Fallback(tool_name, tool_args) ==
    [by |-> "fallback", name |-> tool_name,
     args |-> OrElse(tool_args, PyDict(<<>>))]

\* Lines 244-280, `parsed` being what the primary path left.
ResolveAfter(c, parsed) ==
    IF parsed.by = "structured" THEN [res |-> parsed, error |-> NoRunError]
    ELSE IF FallbackError(c.tool_name, c.tool_args) # NoRunError
    THEN [res |-> Unresolved,
          error |-> FallbackError(c.tool_name, c.tool_args)]
    ELSE [res |-> Fallback(c.tool_name, c.tool_args), error |-> NoRunError]

\* Lines 187-280: [res, error]: parsed_name and parsed_args where resolution
\* ends, or the error with which run_tool leaves before.
ResolveCall(c) ==
    IF BadToolCallType(c.tool_call)
    THEN [res |-> Unresolved,
          error |-> RunError("TypeError",
                             "tool_call must be of type str, dict or None",
                             <<>>)]
    ELSE ResolveAfter(c, IF IsNone(c.tool_call) THEN Unresolved
                         ELSE Structured(c.tool_call))

\* The registry run_tool works on: the names as characters, the runners by
\* what they do when called.
\*   "echo" is def tool_run(**kwargs): return kwargs
\*   "boom" is a tool_run that raises KeyError
\* The tool_run of a scanned file is named by the file; that of f5 raises
\* KeyError, every other one returns its kwargs.
RunRegistry ==
    [n \in {<<"x">>, <<"w">>} |->
        IF n = <<"x">> THEN ToolEntry(ValidDef1, "echo")
        ELSE ToolEntry(ValidDef2, "boom")]

\* A runner found by a scan is the tool_run of the file it came from, named
\* by the file: lines 292-300 of _tools_finder.py accept callables only.
callable(runner) == runner \in {"echo", "boom"} \cup FileIds

\* runner(**kwargs): [kind, value], value what is returned or raised.
CallRunner(runner, kwargs) ==
    IF runner \in {"boom", "f5"}
    THEN [kind |-> "raise", value |-> RunError("KeyError", "boom", <<>>)]
    ELSE [kind |-> "return", value |-> kwargs]

\* return_or_raise(no_throw, return_value=None, exception_factory=...)
NoneOrRaise(nt, error) == return_or_raise(nt, PyNone, error)

\* A mutant of IsRegistered: every name passes the registry check.
IsRegisteredAlways(name, registry) == TRUE

\* Line 283
IsRegistered(name, registry) == name.v \in DOMAIN registry

\* Lines 290-291
RunnerOf(name, registry) ==
    IF name.v \in DOMAIN registry THEN registry[name.v].runner ELSE "None"

\* A mutant of DispatchResult: what the runner raises goes to the caller.
DispatchResultNative(name, got, nt) == got

\* Lines 302-311: what run_tool makes of the runner's return or error.
DispatchResult(name, got, nt) ==
    IF got.kind = "return" THEN got
    ELSE NoneOrRaise(nt, RunError("RuntimeError", "execution failed",
                                  name.v \o <<got.value.type, got.value.msg>>))

\* A mutant of Dispatch: a runner that raised is called a second time.
DispatchRetry(name, kwargs, registry, nt) ==
    IF ~IsRegistered(name, registry) \/ ~callable(RunnerOf(name, registry))
    THEN [result |-> NoneOrRaise(nt, RunError("ValueError",
                                              "is not a registered tool",
                                              name.v)),
          calls |-> <<>>]
    ELSE [result |-> DispatchResult(name, CallRunner(RunnerOf(name, registry),
                                                     kwargs), nt),
          calls |-> IF CallRunner(RunnerOf(name, registry), kwargs).kind
                       = "raise"
                    THEN <<<<RunnerOf(name, registry), kwargs>>,
                           <<RunnerOf(name, registry), kwargs>>>>
                    ELSE <<<<RunnerOf(name, registry), kwargs>>>>]

\* Lines 282-311: lookup and call, for a resolved name and kwargs:
\* [result, calls].
Dispatch(name, kwargs, registry, nt) ==
    IF ~IsRegistered(name, registry)
    THEN [result |-> NoneOrRaise(nt, RunError("ValueError",
                                              "is not a registered tool",
                                              name.v)),
          calls |-> <<>>]
    ELSE IF ~callable(RunnerOf(name, registry))
    THEN [result |-> NoneOrRaise(nt, RunError("RuntimeError",
                                              "has no callable runner",
                                              name.v)),
          calls |-> <<>>]
    ELSE [result |-> DispatchResult(name, CallRunner(RunnerOf(name, registry),
                                                     kwargs), nt),
          calls |-> <<<<RunnerOf(name, registry), kwargs>>>>]

\* The arguments of a call of run_tool (lines 129-135).
NoCall == [tool_call |-> PyNone, tool_name |-> PyNone, tool_args |-> PyNone]

NoRunResult == [kind |-> "none", value |-> PyNone]

RunIdle ==
    /\ call = NoCall /\ resolved = Unresolved /\ invoked = <<>>
    /\ rresult = NoRunResult /\ rpc = "idle"

\* A mutant of AssignTools: the entries found are patched into the old
\* registry.
MergeTools(old, found) ==
    [n \in DOMAIN old \cup DOMAIN found |->
        IF n \in DOMAIN found THEN found[n] ELSE old[n]]

\* Lines 93-101: self.tools = find_tools_json(...)
AssignTools(old, found) == found

\* Lines 124-127: the description of every entry, by name.
get_tool_definitions(registry) ==
    [n \in DOMAIN registry |-> registry[n].description]

\* The object before its first scan has returned: __init__ (lines 69-81)
\* has set no self.tools yet.
NoObject == [tools |-> EmptyDict, constructed |-> FALSE]

\* calls: the calls made after construction; op: the last of them;
\* before: self.tools when it began; definitions: what the last
\* get_tool_definitions returned.
NoLife ==
    [calls |-> 0, op |-> "none", before |-> EmptyDict,
     definitions |-> EmptyDict]

LifeIdle == self = NoObject /\ life = NoLife

---------------------------------------------------------------------------
(* find_tools_json as a state machine: one scan, one loop pass per step *)

Directories == {"base"} \cup {e \in DOMAIN Others : is_dir(e)}

NoHistory ==
    [seen |-> {}, matched |-> {}, pushed |-> {},
     loads |-> [f \in FileIds |-> 0],
     listed |-> [d \in Directories |-> 0],
     accepted |-> EmptyDict]

NoResult == [kind |-> "none", tools |-> EmptyDict, error |-> NoError]

\* The arguments of a scan.  A prefix or suffix is None, a str or (a wrong
\* type) an int.
ScanArgs ==
    [base_dir : BaseDirs,
     max_depth : (-1)..MaxDepthArg,
     prefix : {PyNone, PyStr(<<"a", "b">>), PyInt(5)},
     suffix : {PyNone, PyStr(<<"b", "c">>)},
     prettify : BOOLEAN,
     validate : BOOLEAN]

ScanIdle ==
    /\ args = [base_dir |-> "base", max_depth |-> 0, prefix |-> PyNone,
               suffix |-> PyNone, prettify |-> FALSE, validate |-> FALSE]
    /\ prefix = <<>> /\ suffix = <<>> /\ validate = FALSE
    /\ tools = EmptyDict /\ stack = <<>> /\ cur = <<"base", 0>>
    /\ entries = {} /\ spc = "idle" /\ sresult = NoResult
    /\ diag = {} /\ hist = NoHistory

JsonIdle ==
    /\ json_text = <<>> /\ rng = 1 /\ jpc = "idle"
    /\ jresult = [kind |-> "none", value |-> <<>>]

ScanInit ==
    /\ JsonIdle
    /\ RunIdle
    /\ LifeIdle
    /\ no_throw \in BOOLEAN
    /\ args \in ScanArgs
    /\ prefix = <<>> /\ suffix = <<>> /\ validate = FALSE
    /\ tools = EmptyDict /\ stack = <<>> /\ cur = <<"base", 0>>
    /\ entries = {} /\ spc = "start" /\ sresult = NoResult
    /\ diag = {} /\ hist = NoHistory

\* The argument checks of lines 76-155, in their order: the error of the
\* first that fails.
ArgumentError(a) ==
    IF a.max_depth < 0 THEN Error("ValueError", "max_depth")
    ELSE IF ~IsNone(a.prefix) /\ ~IsStr(a.prefix)
    THEN Error("TypeError", "prefix")
    ELSE IF ~IsNone(a.suffix) /\ ~IsStr(a.suffix)
    THEN Error("TypeError", "suffix")
    ELSE IF ~(a.base_dir = "base")
    THEN Error("FileNotFoundError", "base_dir")
    ELSE NoError

Finish(outcome) ==
    /\ spc' = IF outcome.kind = "raise" THEN "raised" ELSE "returned"
    /\ self' = IF outcome.kind = "return"
               THEN [tools |-> AssignTools(self.tools, outcome.value),
                     constructed |-> TRUE]
               ELSE self
    /\ sresult' = [kind |-> outcome.kind,
                   tools |-> IF outcome.kind = "return"
                             THEN outcome.value ELSE EmptyDict,
                   error |-> IF outcome.kind = "raise"
                             THEN outcome.value ELSE NoError]

\* Lines 72-170: the arguments are checked and normalised, the stack starts
\* with the base directory.
ScanStart ==
    /\ spc = "start"
    /\ IF ArgumentError(args) # NoError
       THEN /\ Finish(return_or_raise(no_throw, EmptyDict, ArgumentError(args)))
            /\ UNCHANGED <<prefix, suffix, validate, stack>>
       ELSE /\ prefix' = (IF IsNone(args.prefix) THEN <<>> ELSE args.prefix.v)
            /\ suffix' = (IF IsNone(args.suffix) THEN <<>> ELSE args.suffix.v)
            /\ validate' = (IF args.prettify THEN FALSE ELSE args.validate)
            /\ stack' = <<<<"base", 0>>>>
            /\ spc' = "loop"
            /\ UNCHANGED <<sresult, self>>
    /\ UNCHANGED <<no_throw, jvars, rvars, life, args, tools, cur, entries, diag,
                   hist>>

\* Lines 172-193: the last directory pushed is popped and listed.
PopDir ==
    /\ spc = "loop"
    /\ stack # <<>>
    /\ LET top == stack[Len(stack)]
           dir == top[1]
       IN
       /\ stack' = SubSeq(stack, 1, Len(stack) - 1)
       /\ cur' = top
       /\ hist' = [hist EXCEPT !.listed[dir] = @ + 1]
       /\ IF CanList(dir)
          THEN /\ entries' = iterdir(dir)
               /\ spc' = IF iterdir(dir) = {} THEN "loop" ELSE "for"
               /\ UNCHANGED <<sresult, self, diag>>
          ELSE /\ entries' = {}
               /\ diag' = diag \cup {<<"Cannot list directory", dir>>}
               /\ IF no_throw
                  THEN spc' = "loop" /\ UNCHANGED <<sresult, self>>
                  ELSE Finish([kind |-> "raise",
                               value |-> Error("OSError", dir)])
    /\ UNCHANGED <<no_throw, jvars, rvars, life, args, prefix, suffix,
                   validate,
                   tools>>

\* The state after a loop pass on entry e that did `out`.
AfterLoopBody(e, depth, out) ==
        /\ entries' = entries \ {e}
        /\ stack' = IF out.push THEN Append(stack, <<e, depth + 1>>) ELSE stack
        /\ tools' = IF out.accept
                    THEN Register(tools, out.name,
                                  ToolEntry(out.description, e))
                    ELSE tools
        /\ diag' = diag \cup out.msgs
        /\ hist' = [hist EXCEPT
                !.seen = @ \cup {e},
                !.matched = IF out.matched THEN @ \cup {e} ELSE @,
                !.pushed = IF out.push THEN @ \cup {<<e, depth + 1>>} ELSE @,
                !.loads = IF out.loaded THEN [@ EXCEPT ![e] = @ + 1] ELSE @,
                !.accepted =
                    IF out.accept
                    THEN DictPut(@, out.name,
                                 IF out.name \in DOMAIN @
                                 THEN Append(@[out.name], e) ELSE <<e>>)
                    ELSE @]
        /\ IF out.error # NoError
           THEN Finish([kind |-> "raise", value |-> out.error])
           ELSE /\ spc' = IF entries \ {e} = {} THEN "loop" ELSE "for"
                /\ UNCHANGED <<sresult, self>>

\* Lines 195-345: one pass of the for loop, on an entry of the listing (the
\* order of a listing is the file system's).
ProcessEntry ==
    /\ spc = "for"
    /\ \E e \in entries :
        AfterLoopBody(e, cur[2],
                      LoopBody(e, cur[2], args.max_depth, prefix, suffix,
                               args.prettify, validate, no_throw, rng, tools))
    /\ UNCHANGED <<no_throw, jvars, rvars, life, args, prefix, suffix,
                   validate,
                   cur>>

\* Lines 347-369: the stack is empty, the registry is returned.
ScanReturn ==
    /\ spc = "loop"
    /\ stack = <<>>
    /\ Finish([kind |-> "return", value |-> tools])
    /\ UNCHANGED <<no_throw, jvars, rvars, life, args, prefix, suffix,
                   validate,
                   tools, stack, cur, entries, diag, hist>>

ScanNext == ScanStart \/ PopDir \/ ProcessEntry \/ ScanReturn

SpecScan == ScanInit /\ [][ScanNext]_vars

\* The scans of the tree with one name filter and no JSON check and every
\* max_depth: what the traversal does, whatever the files hold.
TraversalInit ==
    /\ ScanInit
    /\ args.base_dir = "base"
    /\ args.prefix = PyStr(<<"a", "b">>) /\ args.suffix = PyStr(<<"b", "c">>)
    /\ ~args.prettify /\ ~args.validate

\* The scan is one sequential call: each of its steps is taken once it can
\* be.
SpecTraversal == TraversalInit /\ [][ScanNext]_vars /\ WF_vars(ScanNext)

---------------------------------------------------------------------------
(* prettify_json as a state machine: one call on one input text *)

\* Nesting depth of the generated documents.
MaxNesting == 3

KeyA == <<"a">>
KeyB == <<"b">>

JsonLeaves ==
    {PyNone, PyBool(TRUE), PyInt(1), PyStr(<<"T1">>), PyStr(<<Q, "T2", BS>>),
     PyList(<<>>), PyDict(<<>>)}

\* One more level around x: in an array, in an array beside an array, in an
\* object after an array member, in an object whose key and whose other
\* member spell placeholder names.
JsonWrap(x) ==
    {PyList(<<x>>),
     PyList(<<PyList(<<PyInt(20), PyStr(<<"T1">>)>>), x>>),
     PyDict(<< <<KeyB, PyList(<<PyInt(1), PyStr(<<"a">>)>>)>>, <<KeyA, x>> >>),
     PyDict(<< <<<<"T2">>, x>>, <<KeyA, PyStr(<<"T1">>)>> >>)}

RECURSIVE JsonValues(_)
JsonValues(depth) ==
    IF depth = 0 THEN JsonLeaves
    ELSE LET inner == JsonValues(depth - 1) IN
         inner \cup UNION {JsonWrap(x) : x \in inner}

\* Texts json.loads rejects.
InvalidTexts ==
    {<<>>, <<"{">>, <<"[", "1", ",", "]">>, <<Q, "a">>, <<"a">>,
     <<"{", Q, "a", Q, "}">>, <<"1", SP, "2">>}

\* The texts handed to prettify_json: each document written one-line and
\* written indented, a document with a repeated key, and the invalid texts.
InputTexts ==
    {json_dumps(x, -1, <<":">>) : x \in JsonValues(MaxNesting)}
    \cup {json_dumps(x, 1, <<":", SP>>) : x \in JsonValues(MaxNesting)}
    \cup {<<"{", Q, "a", Q, ":", "[", "1", "]", ",", Q, "b", Q, ":", "2", ",",
            Q, "a", Q, ":", "[", "3", "]", "}">>}
    \cup InvalidTexts

JsonInit ==
    /\ ScanIdle
    /\ RunIdle
    /\ LifeIdle
    /\ json_text \in InputTexts
    /\ no_throw \in BOOLEAN
    /\ rng \in 1..MaxStreams
    /\ jresult = [kind |-> "none", value |-> <<>>]
    /\ jpc = "start"

PrettifyJson ==
    /\ jpc = "start"
    /\ jresult' = prettify_json(json_text, no_throw, rng)
    /\ jpc' = "done"
    /\ UNCHANGED <<json_text, no_throw, rng, svars, rvars, lvars>>

JsonNext == PrettifyJson

SpecJson == JsonInit /\ [][JsonNext]_vars

---------------------------------------------------------------------------
(* run_tool as a state machine: one call on one registry *)

\* A payload dict from its four fields; Absent leaves the field out.
Absent == [t |-> "absent", v |-> <<>>]

Member(key, x) == IF x.t = "absent" THEN <<>> ELSE <<<<key, x>>>>

Payload(name, function_name, parameters, arguments) ==
    PyDict(Member(Chars_name, name)
           \o Member(Chars_function_name, function_name)
           \o Member(Chars_parameters, parameters)
           \o Member(Chars_arguments, arguments))

\* json.dumps(x, separators=(",", ":")): the text an LLM produces for x.
TextOf(x) == PyStr(json_dumps(x, -1, <<":">>))

ArgsA1 == PyDict(<<<<KeyA, PyInt(1)>>>>)
ArgsA2 == PyDict(<<<<KeyA, PyInt(2)>>>>)
ArgsA9 == PyDict(<<<<KeyA, PyInt(9)>>>>)

NameValues ==
    {Absent, PyNone, PyStr(<<>>), PyStr(<<SP>>), PyStr(<<"x">>),
     PyStr(<<"q">>), PyInt(5)}

FunctionNameValues == {Absent, PyStr(<<"w">>)}

ParametersValues ==
    {Absent, PyNone, ArgsA2, TextOf(ArgsA2), PyStr(<<"o", "o", "p", "s">>),
     TextOf(PyList(<<PyInt(1)>>)), PyInt(5)}

ArgumentsValues == {Absent, ArgsA1}

Payloads ==
    {Payload(n, f, p, a) : n \in NameValues, f \in FunctionNameValues,
                           p \in ParametersValues, a \in ArgumentsValues}
    \cup {Payload(PyStr(<<"x">>), Absent, PyDict(<<>>), Absent)}

\* Values of tool_call that are no payload and no list of one payload.
OtherValues ==
    {PyInt(5), PyList(<<>>), PyList(<<PyInt(1)>>),
     PyList(<<PyInt(1), PyInt(2)>>),
     PyList(<<Payload(PyStr(<<"x">>), Absent, Absent, ArgsA1),
              Payload(PyStr(<<"w">>), Absent, Absent, Absent)>>)}

ToolCalls ==
    {PyNone, PyStr(<<"n", "o", "t", SP, "j", "s", "o", "n">>)}
    \cup Payloads \cup {TextOf(p) : p \in Payloads}
    \cup {PyList(<<p>>) : p \in Payloads}
    \cup {TextOf(PyList(<<p>>)) : p \in Payloads}
    \cup OtherValues \cup {TextOf(x) : x \in OtherValues}

ToolNames ==
    {PyNone, PyStr(<<>>), PyStr(<<SP>>), PyStr(<<"x">>), PyStr(<<"q">>),
     PyInt(5)}

ToolArgs == {PyNone, ArgsA9, PyInt(5)}

RunCalls == [tool_call : ToolCalls, tool_name : ToolNames, tool_args : ToolArgs]

RunInit ==
    /\ JsonIdle
    /\ args = [base_dir |-> "base", max_depth |-> 0, prefix |-> PyNone,
               suffix |-> PyNone, prettify |-> FALSE, validate |-> FALSE]
    /\ prefix = <<>> /\ suffix = <<>> /\ validate = FALSE
    /\ tools = EmptyDict /\ stack = <<>> /\ cur = <<"base", 0>>
    /\ entries = {} /\ spc = "idle" /\ sresult = NoResult
    /\ diag = {} /\ hist = NoHistory
    /\ no_throw \in BOOLEAN
    /\ call \in RunCalls
    /\ resolved = Unresolved /\ invoked = <<>>
    /\ rresult = NoRunResult /\ rpc = "start"
    /\ self = [tools |-> RunRegistry, constructed |-> TRUE]
    /\ life = NoLife

\* Lines 282-311, for what lines 187-280 gave.
RunToolFrom(r) ==
    IF r.error # NoRunError
    THEN /\ resolved' = Unresolved
         /\ invoked' = <<>>
         /\ rresult' = NoneOrRaise(no_throw, r.error)
    ELSE /\ resolved' = r.res
         /\ invoked' =
              Dispatch(r.res.name, r.res.args, self.tools, no_throw).calls
         /\ rresult' =
              Dispatch(r.res.name, r.res.args, self.tools, no_throw).result

RunTool ==
    /\ rpc = "start"
    /\ RunToolFrom(ResolveCall(call))
    /\ rpc' = "done"
    /\ UNCHANGED <<no_throw, jvars, svars, lvars, call>>

RunNext == RunTool

SpecRun == RunInit /\ [][RunNext]_vars

---------------------------------------------------------------------------
(* LlmTools as a state machine: construction, then scan_tools, run_tool   *)
(* and get_tool_definitions called one after the other                    *)

\* Calls made on one object after its construction.
MaxCalls == 3

\* The attributes a scan reads (lines 94-100); they are plain attributes,
\* the caller may assign them between two scans.
LifeArgs ==
    {a \in ScanArgs :
        /\ a.base_dir \in {"base", "missing"}
        /\ a.max_depth >= 0
        /\ a.prefix = PyStr(<<"a", "b">>) /\ a.suffix = PyStr(<<"b", "c">>)
        /\ ~a.prettify /\ ~a.validate}

\* The calls of run_tool made on the object: a registered name at every
\* depth, one registered below the base directory only, one never
\* registered, one whose runner raises.
LifeCalls ==
    {c \in RunCalls :
        /\ IsNone(c.tool_call)
        /\ c.tool_name \in {PyStr(<<"x">>), PyStr(<<"q">>)}
        /\ c.tool_args = ArgsA9}
    \cup {[tool_call |-> Payload(PyStr(n), Absent, Absent, ArgsA1),
           tool_name |-> PyNone, tool_args |-> PyNone] :
           n \in {<<"j">>, <<"z">>}}

\* Lines 69-81: __init__ stores the attributes and calls scan_tools.
LifeInit ==
    /\ ScanInit
    /\ args \in LifeArgs

\* The object exists and no call on it is in progress.
CanCall ==
    /\ self.constructed
    /\ spc \in {"returned", "raised"}
    /\ life.calls < MaxCalls

BeginCall(op) ==
    life' = [life EXCEPT !.calls = @ + 1, !.op = op, !.before = self.tools]

\* Lines 83-93 and _tools_finder.py lines 157-158: scan_tools is called,
\* find_tools_json starts with its own empty dict.
ScanTools ==
    /\ CanCall
    /\ BeginCall("scan")
    /\ args' \in LifeArgs
    /\ prefix' = <<>> /\ suffix' = <<>> /\ validate' = FALSE
    /\ tools' = EmptyDict /\ stack' = <<>> /\ cur' = <<"base", 0>>
    /\ entries' = {} /\ spc' = "start" /\ sresult' = NoResult
    /\ diag' = {} /\ hist' = NoHistory
    /\ UNCHANGED <<no_throw, jvars, rvars, self>>

\* Lines 129-311: one call of run_tool on the object.
LifeRunTool ==
    /\ CanCall
    /\ BeginCall("run")
    /\ \E c \in LifeCalls :
        /\ call' = c
        /\ RunToolFrom(ResolveCall(c))
    /\ rpc' = "done"
    /\ UNCHANGED <<no_throw, jvars, svars, self>>

\* Lines 106-127: one call of get_tool_definitions on the object.
GetToolDefinitions ==
    /\ CanCall
    /\ life' = [life EXCEPT !.calls = @ + 1, !.op = "get",
                            !.before = self.tools,
                            !.definitions = get_tool_definitions(self.tools)]
    /\ UNCHANGED <<no_throw, jvars, svars, rvars, self>>

LifeNext == ScanNext \/ ScanTools \/ LifeRunTool \/ GetToolDefinitions

SpecLife == LifeInit /\ [][LifeNext]_vars

---------------------------------------------------------------------------
(* C1: for every JSON text that parses to a value x, parsing the text that *)
(* prettify_json returns gives a value equal to x, member order of every   *)
(* object included (objects are sequences of members).                     *)
C1_RoundTrip ==
    (jpc = "done" /\ json_loads(json_text).ok) =>
        /\ jresult.kind = "return"
        /\ json_loads(jresult.value).ok
        /\ json_loads(jresult.value).val = json_loads(json_text).val

\* A returned text for an array that holds an object that holds an array,
\* inside an object with two members.
C1_Witness ==
    /\ jpc = "done"
    /\ jresult.kind = "return"
    /\ json_loads(json_text).ok
    /\ LET x == json_loads(json_text).val IN
       /\ IsDict(x) /\ Len(x.v) = 2
       /\ \E i \in 1..2 :
            /\ IsList(x.v[i][2]) /\ Len(x.v[i][2].v) = 1
            /\ IsDict(x.v[i][2].v[1])
            /\ Len(x.v[i][2].v[1].v) = 2
            /\ IsList(x.v[i][2].v[1].v[1][2])
    /\ jresult.value # json_text

---------------------------------------------------------------------------
(* Claims about the scan *)

\* A filter as the caller passed it: an absent filter is the empty string.
FilterText(x) == IF IsNone(x) THEN <<>> ELSE x.v

\* The files registered, in tools or in the returned registry.
Runners(registry) == {registry[n].runner : n \in DOMAIN registry}

\* stem = prefix + middle + suffix for some middle of at least one character.
HasNonEmptyMiddle(stem, pre, suf) ==
    \E i \in 1..Len(stem) : \E j \in i..Len(stem) :
        /\ SubSeq(stem, 1, i - 1) = pre
        /\ SubSeq(stem, j + 1, Len(stem)) = suf

(* C2: a regular file the scan comes to is treated as a candidate iff its   *)
(* extension is .py and its stem is prefix + middle + suffix with a         *)
(* non-empty middle (an absent filter is the empty string); a file that is  *)
(* no candidate is never loaded and never registered.                       *)
C2_CandidateIff ==
    /\ \A e \in hist.seen \cap FileIds :
          e \in hist.matched <=>
            /\ PathSuffix(Files[e].name) = PyExt
            /\ HasNonEmptyMiddle(PathStem(Files[e].name),
                                 FilterText(args.prefix),
                                 FilterText(args.suffix))
    /\ \A e \in FileIds : hist.loads[e] > 0 => e \in hist.matched
    /\ Runners(tools) \subseteq hist.matched

\* Prefix ab and suffix bc: abc.py (the filters overlap in it) and abbc.py
\* (nothing between them) were rejected, abxbc.py was loaded.
C2_Witness ==
    /\ FilterText(args.prefix) = <<"a", "b">>
    /\ FilterText(args.suffix) = <<"b", "c">>
    /\ {"f1", "f2", "f3", "f6"} \subseteq hist.seen
    /\ "f2" \notin hist.matched /\ "f3" \notin hist.matched
    /\ "f1" \in hist.matched /\ hist.loads["f1"] = 1

(* C3: with max_depth = 0 only the base directory is listed: nothing is     *)
(* pushed on the stack, no other directory is listed, and no entry of a     *)
(* subdirectory is examined, loaded or registered.                          *)
C3_DepthZeroBaseOnly ==
    args.max_depth = 0 =>
        /\ hist.pushed = {}
        /\ \A i \in 1..Len(stack) : stack[i] = <<"base", 0>>
        /\ \A d \in Directories \ {"base"} : hist.listed[d] = 0
        /\ \A e \in hist.seen : Entry(e).dir = "base"
        /\ \A e \in FileIds : hist.loads[e] > 0 => Files[e].dir = "base"
        /\ \A e \in Runners(tools) \cup Runners(sresult.tools) :
              Files[e].dir = "base"

\* A scan with max_depth = 0 that met subdirectory d1 and returned tools.
C3_Witness ==
    /\ args.max_depth = 0
    /\ spc = "returned"
    /\ "d1" \in hist.seen
    /\ hist.listed["base"] = 1
    /\ DOMAIN sresult.tools # {}

(* C4: when two accepted files give the same tool name, the registry holds  *)
(* for that name the description and callable of the file processed later,  *)
(* the overwrite is reported by a warning, the scan does not fail on it,    *)
(* and the registry returned is the one built.                              *)
C4_LaterFileWins ==
    /\ DOMAIN tools = DOMAIN hist.accepted
    /\ \A n \in DOMAIN tools :
          LET files == hist.accepted[n]
              later == files[Len(files)]
          IN /\ tools[n].runner = later
             /\ tools[n].description =
                    ExtractFields(later, args.prettify, validate, no_throw,
                                  rng).description
             /\ Len(files) > 1 => <<"Overwriting", n>> \in diag
             /\ \A i \in 1..Len(files) :
                   ~(spc = "raised" /\ sresult.error.about = files[i])
    /\ sresult.kind = "return" => sresult.tools = tools

\* A scan that returned after abxbc.py of d1 took the place of abxbc.py of
\* the base directory.
C4_Witness ==
    /\ spc = "returned"
    /\ \E n \in DOMAIN hist.accepted :
          /\ hist.accepted[n] = <<"f1", "g1">>
          /\ sresult.tools[n].runner = "g1"
          /\ sresult.tools[n].description # Files["g1"].definition
          /\ <<"Overwriting", n>> \in diag

(* C5: a candidate larger than 1,048,576 bytes is never loaded and never    *)
(* registered, whatever no_throw is, and the scan is not ended by it; a     *)
(* candidate of exactly 1,048,576 bytes is loaded.                          *)
C5_SizeCeiling ==
    /\ \A e \in FileIds :
          Files[e].size > 1048576 =>
            /\ hist.loads[e] = 0
            /\ e \notin Runners(tools) \cup Runners(sresult.tools)
            /\ ~(spc = "raised" /\ sresult.error.about = e)
            /\ e \in hist.matched => <<"Skipping file >1MB", e>> \in diag
    /\ \A e \in hist.matched :
          (Files[e].size = 1048576 /\ Files[e].stat = "ok") =>
            /\ hist.loads[e] = 1
            /\ <<"Skipping file >1MB", e>> \notin diag

\* A fail-fast scan that passed over the oversize abybc.py and returned with
\* abzbc.py, of exactly the ceiling, registered.
C5_Witness ==
    /\ ~no_throw
    /\ spc = "returned"
    /\ "f4" \in hist.matched /\ hist.loads["f4"] = 0
    /\ "f5" \in Runners(sresult.tools)

---------------------------------------------------------------------------
(* Claims about run_tool *)

\* Equality of two Python values, the type looked at first.
SameValue(x, y) == x.t = y.t /\ x.v = y.v

ReturnedNone(result) == result.kind = "return" /\ IsNone(result.value)

RaisedError(result, type) == result.kind = "raise" /\ result.value.type = type

\* The request object of a tool_call: the dict given, or the dict its text
\* decodes to; None if it is neither.
RequestObject(tool_call) ==
    IF IsDict(tool_call) THEN tool_call
    ELSE IF IsStr(tool_call) /\ IsDict(ValueOrNone(json_loads(tool_call.v)))
    THEN ValueOrNone(json_loads(tool_call.v))
    ELSE PyNone

\* The request sequence of a tool_call: the list given, or the list its text
\* decodes to; None if it is neither.
RequestList(tool_call) ==
    IF IsList(tool_call) THEN tool_call
    ELSE IF IsStr(tool_call) /\ IsList(ValueOrNone(json_loads(tool_call.v)))
    THEN ValueOrNone(json_loads(tool_call.v))
    ELSE PyNone

\* The value of the first of two fields that is present.
FirstPresent(obj, key1, key2, default) ==
    IF HasKey(obj, key1) THEN DictGet(obj, key1)
    ELSE IF HasKey(obj, key2) THEN DictGet(obj, key2)
    ELSE default

\* The value of the first of two fields that is present and not null.
FirstNonNull(obj, key1, key2, default) ==
    IF HasKey(obj, key1) /\ ~IsNone(DictGet(obj, key1)) THEN DictGet(obj, key1)
    ELSE IF HasKey(obj, key2) /\ ~IsNone(DictGet(obj, key2))
    THEN DictGet(obj, key2)
    ELSE default

\* Arguments given as text stand for the value the text decodes to.
Decoded(x) == IF IsStr(x) THEN ValueOrNone(json_loads(x.v)) ELSE x

\* A (name, arguments) pair is a resolution if the name is a non-empty
\* string and the arguments are a mapping.
IsResolution(name, arguments) ==
    IsStr(name) /\ ~IsBlank(name.v) /\ IsDict(arguments)

\* The resolved call is the structured one with this name and arguments.
ResolvedStructured(name, arguments) ==
    /\ resolved.by = "structured"
    /\ SameValue(resolved.name, name)
    /\ SameValue(resolved.args, arguments)

\* '{"name":"x","arguments":{"a":1}}'
ExampleText ==
    <<"{", Q>> \o Chars_name \o <<Q, ":", Q, "x", Q, ",", Q>>
    \o Chars_arguments \o <<Q, ":", "{", Q, "a", Q, ":", "1", "}", "}">>

(* C6: a call whose resolved name is no key of the registry raises, with    *)
(* no_throw off, the ValueError that names the unregistered tool, returns   *)
(* None with no_throw on, and in both cases invokes no runner.              *)
C6_UnregisteredFails ==
    (rpc = "done" /\ resolved.by # "none"
     /\ resolved.name.v \notin DOMAIN self.tools)
    => /\ invoked = <<>>
       /\ no_throw => ReturnedNone(rresult)
       /\ ~no_throw =>
            /\ RaisedError(rresult, "ValueError")
            /\ rresult.value.msg = "is not a registered tool"
            /\ rresult.value.detail = resolved.name.v

C6_Witness ==
    /\ rpc = "done" /\ ~no_throw
    /\ resolved.by = "structured"
    /\ resolved.name = PyStr(<<"q">>)
    /\ <<"q">> \notin DOMAIN self.tools
    /\ RaisedError(rresult, "ValueError")

\* C7 as the specification words it: a field that is present wins, whatever
\* its value.
C7_PresentFieldWins ==
    (rpc = "done" /\ IsDict(RequestObject(call.tool_call))
     /\ resolved.by = "structured")
    => ResolvedStructured(
           FirstPresent(RequestObject(call.tool_call), Chars_name,
                        Chars_function_name, PyNone),
           Decoded(FirstPresent(RequestObject(call.tool_call),
                                Chars_parameters, Chars_arguments,
                                PyDict(<<>>))))

\* The name and the arguments of C7, for the request object obj.
NonNullFieldWinsFor(obj, name, arguments) ==
    /\ IF IsResolution(name, arguments)
       THEN ResolvedStructured(name, arguments)
       ELSE resolved.by # "structured"
    /\ (HasKey(obj, Chars_parameters) /\ HasKey(obj, Chars_arguments)
        /\ resolved.by = "structured"
        /\ ~IsNone(DictGet(obj, Chars_parameters)))
       => SameValue(resolved.args, Decoded(DictGet(obj, Chars_parameters)))

(* C7: for a request object (a dict, or text that decodes to one) the       *)
(* resolved name is the value of field "name" when that is present and not  *)
(* null, otherwise of field "function_name"; the resolved arguments are the *)
(* value of field "parameters" when that is present and not null, otherwise *)
(* of field "arguments" when that is present and not null, otherwise an     *)
(* empty mapping, arguments given as text being JSON-decoded; the object    *)
(* resolves iff that name is a non-empty string and those arguments are a   *)
(* mapping; with both "parameters" and "arguments" present and not null     *)
(* "parameters" wins; and '{"name":"x","arguments":{"a":1}}' resolves to    *)
(* ("x", {"a": 1}).                                                         *)
C7_NonNullFieldWins ==
    /\ (rpc = "done" /\ IsDict(RequestObject(call.tool_call)))
       => NonNullFieldWinsFor(
              RequestObject(call.tool_call),
              FirstNonNull(RequestObject(call.tool_call), Chars_name,
                           Chars_function_name, PyNone),
              Decoded(FirstNonNull(RequestObject(call.tool_call),
                                   Chars_parameters, Chars_arguments,
                                   PyDict(<<>>))))
    /\ (rpc = "done" /\ call.tool_call = PyStr(ExampleText))
       => ResolvedStructured(PyStr(<<"x">>), ArgsA1)

C7_Witness ==
    /\ rpc = "done"
    /\ IsStr(call.tool_call)
    /\ IsDict(RequestObject(call.tool_call))
    /\ HasKey(RequestObject(call.tool_call), Chars_name)
    /\ IsNone(DictGet(RequestObject(call.tool_call), Chars_name))
    /\ SameValue(DictGet(RequestObject(call.tool_call), Chars_parameters),
                 ArgsA2)
    /\ SameValue(DictGet(RequestObject(call.tool_call), Chars_arguments),
                 ArgsA1)
    /\ ResolvedStructured(PyStr(<<"w">>), ArgsA2)
    /\ invoked = <<<<"boom", ArgsA2>>>>

\* The resolved call is the one that resolving tool_call = obj gives.
ResolvedAs(r) ==
    /\ r.error = NoRunError
    /\ resolved.by = r.res.by
    /\ SameValue(resolved.name, r.res.name)
    /\ SameValue(resolved.args, r.res.args)

(* C8: a tool_call that is a sequence of one object, given as JSON text or  *)
(* as an already-parsed list, resolves to the same (name, arguments) as the *)
(* object alone whenever the object alone resolves; on a sequence of any    *)
(* other length or element type the structured strategy yields no result.   *)
C8_SingleElementListUnwraps ==
    (rpc = "done" /\ IsList(RequestList(call.tool_call)))
    => IF Len(RequestList(call.tool_call).v) = 1
          /\ IsDict(RequestList(call.tool_call).v[1])
       THEN Structured(RequestList(call.tool_call).v[1]).by = "structured"
            => ResolvedAs(ResolveCall(
                   [call EXCEPT !.tool_call = RequestList(call.tool_call).v[1]]))
       ELSE resolved.by # "structured"

\* The error the fallback pair calls for, in the specification's taxonomy.
FallbackFailure(c) ==
    IF IsNone(c.tool_name) THEN "ValueError"
    ELSE IF ~IsStr(c.tool_name) \/ IsBlank(c.tool_name.v) THEN "TypeError"
    ELSE IF ~IsNone(c.tool_args) /\ ~IsDict(c.tool_args) THEN "TypeError"
    ELSE "none"

(* C9: when the structured strategy gives no result for the tool_call, the  *)
(* call fails with the format error (ValueError) if no fallback name is     *)
(* given, with the argument error (TypeError) if the fallback name is not a *)
(* non-empty string or the fallback arguments are given and are no mapping; *)
(* the failure is raised with no_throw off and is a None return with        *)
(* no_throw on; fallback arguments left out count as the empty mapping.     *)
C9_FallbackFailures ==
    (rpc = "done" /\ Structured(call.tool_call).by # "structured")
    => /\ FallbackFailure(call) # "none"
          => /\ invoked = <<>>
             /\ no_throw => ReturnedNone(rresult)
             /\ ~no_throw => RaisedError(rresult, FallbackFailure(call))
       /\ (FallbackFailure(call) = "none" /\ IsNone(call.tool_args))
          => SameValue(resolved.args, PyDict(<<>>))

(* C10: the structured strategy is tried first and wins when it succeeds,   *)
(* the fallback pair then being ignored; for every tool_call on which it    *)
(* does not succeed (None, text that does not decode, a wrong shape, an     *)
(* empty name, a value of an unsupported type) a fallback pair with a       *)
(* non-empty string name and arguments that are a mapping or left out is    *)
(* the resolved call.                                                       *)
C10_FirstStrategyWins ==
    rpc = "done"
    => IF Structured(call.tool_call).by = "structured"
       THEN ResolvedStructured(Structured(call.tool_call).name,
                               Structured(call.tool_call).args)
       ELSE FallbackFailure(call) = "none"
            => /\ resolved.by = "fallback"
               /\ SameValue(resolved.name, call.tool_name)
               /\ SameValue(resolved.args, OrElse(call.tool_args, PyDict(<<>>)))

\* The value of the arguments field of a request object, before decoding.
ArgumentsField(obj) ==
    FirstNonNull(obj, Chars_parameters, Chars_arguments, PyDict(<<>>))

(* C11: the structured strategy succeeds only with a name that is a         *)
(* non-empty string and arguments that are a mapping; an arguments field    *)
(* that is a string is JSON-decoded, the decoded mapping being the resolved *)
(* arguments, and if the text does not decode or decodes to something that  *)
(* is no mapping the structured strategy gives no result; so whenever a     *)
(* runner is invoked the resolved name is a non-empty string and the        *)
(* arguments it is invoked with are the resolved ones, a mapping.           *)
C11_NameAndMappingOnly ==
    rpc = "done"
    => /\ resolved.by = "structured"
          => /\ IsStr(resolved.name) /\ resolved.name.v # <<>>
             /\ IsDict(resolved.args)
       /\ (IsDict(RequestObject(call.tool_call))
           /\ IsStr(ArgumentsField(RequestObject(call.tool_call))))
          => IF IsDict(Decoded(ArgumentsField(RequestObject(call.tool_call))))
             THEN resolved.by = "structured"
                  => SameValue(resolved.args,
                               Decoded(ArgumentsField(
                                   RequestObject(call.tool_call))))
             ELSE resolved.by # "structured"
       /\ invoked # <<>>
          => /\ Len(invoked) = 1
             /\ IsStr(resolved.name) /\ resolved.name.v # <<>>
             /\ IsDict(resolved.args)
             /\ SameValue(invoked[1][2], resolved.args)

C11_Witness ==
    /\ rpc = "done"
    /\ IsDict(call.tool_call)
    /\ IsStr(ArgumentsField(call.tool_call))
    /\ resolved.by = "structured"
    /\ resolved.args = ArgsA2
    /\ invoked = <<<<"echo", ArgsA2>>>>

(* C12: with no_throw off, an error raised by the invoked runner leaves     *)
(* run_tool as a RuntimeError whose message names the tool and carries the  *)
(* type name and the message of the original error; the runner's own error  *)
(* is never what the caller of run_tool gets.                               *)
C12_RunnerErrorReclassified ==
    (rpc = "done" /\ ~no_throw /\ invoked # <<>>
     /\ CallRunner(invoked[1][1], invoked[1][2]).kind = "raise")
    => /\ RaisedError(rresult, "RuntimeError")
       /\ rresult.value.msg = "execution failed"
       /\ rresult.value.detail =
            resolved.name.v
            \o <<CallRunner(invoked[1][1], invoked[1][2]).value.type,
                 CallRunner(invoked[1][1], invoked[1][2]).value.msg>>
       /\ rresult.value # CallRunner(invoked[1][1], invoked[1][2]).value

C12_Witness ==
    /\ rpc = "done" /\ ~no_throw
    /\ invoked = <<<<"boom", ArgsA1>>>>
    /\ resolved.by = "structured"
    /\ RaisedError(rresult, "RuntimeError")
    /\ rresult.value.detail = <<"w", "KeyError", "boom">>

\* The call failed: nothing was resolved, or the resolved name is not
\* registered, or the runner raised.
RunFailed ==
    \/ resolved.by = "none"
    \/ resolved.name.v \notin DOMAIN self.tools
    \/ /\ invoked # <<>>
       /\ CallRunner(invoked[1][1], invoked[1][2]).kind = "raise"

(* C13: with no_throw on, run_tool never raises, whatever tool_call,        *)
(* tool_name and tool_args are: every resolution, lookup and execution      *)
(* failure returns None; with no_throw off each of these failures raises.   *)
C13_FailOpenNeverRaises ==
    rpc = "done"
    => /\ no_throw => rresult.kind = "return"
       /\ (no_throw /\ RunFailed) => ReturnedNone(rresult)
       /\ (~no_throw /\ RunFailed) => rresult.kind = "raise"
       /\ ~RunFailed => /\ rresult.kind = "return"
                        /\ SameValue(rresult.value, resolved.args)

C13_Witness ==
    /\ rpc = "done" /\ no_throw
    /\ invoked = <<<<"boom", ArgsA2>>>>
    /\ ReturnedNone(rresult)

---------------------------------------------------------------------------
(* Claims about errors during a scan *)

\* File e fails on its own under the scan's arguments: executing it raises,
\* it binds no callable tool_run, its TOOL_DEFINITION is no str, or the
\* definition is not JSON while validation or prettifying is asked for.
PerFileFailure(e) ==
    \/ Files[e].content \in {"raises", "no_runner", "def_not_str"}
    \/ /\ args.prettify \/ args.validate
       /\ ~json_loads(Files[e].definition).ok

\* File e has been executed and failed on its own.
FailedOnLoad(e) == hist.loads[e] > 0 /\ PerFileFailure(e)

\* File e is the runner of no entry of the registry being built.
NotRegistered(e) ==
    /\ \A n \in DOMAIN tools : tools[n].runner # e
    /\ \A n \in DOMAIN sresult.tools : sresult.tools[n].runner # e

\* The scan has ended by raising the error of file or directory e.
RaisedAbout(e) ==
    spc = "raised" /\ sresult.kind = "raise" /\ sresult.error.about = e

\* C14 as the specification words it: a file that fails on its own is
\* skipped and never ends the scan, whatever no_throw is.
C14_PerFileFailureAlwaysSkips ==
    \A e \in FileIds :
        FailedOnLoad(e) => NotRegistered(e) /\ ~RaisedAbout(e)

\* The registry returned holds every file that was come to, passed the name
\* filter, the stat and the size guard and did not fail on its own.
ReturnsEveryOtherTool ==
    /\ sresult.tools = tools
    /\ \A e \in hist.matched :
         (Files[e].stat = "ok" /\ Files[e].size <= MAX_TOOL_FILE_SIZE_BYTES
          /\ ~PerFileFailure(e))
         => \E n \in DOMAIN hist.accepted :
              \E i \in 1..Len(hist.accepted[n]) : hist.accepted[n][i] = e
    /\ \A n \in DOMAIN hist.accepted :
         /\ n \in DOMAIN tools
         /\ tools[n].runner = hist.accepted[n][Len(hist.accepted[n])]

\* Every entry of every directory that was listed has been come to.
WentThroughEveryListing ==
    \A d \in Directories :
        (hist.listed[d] > 0 /\ (d = "base" \/ Others[d].kind = "dir"))
        => iterdir(d) \subseteq hist.seen

(* C14: a file that fails on its own (executing it raises, no callable      *)
(* tool_run, a TOOL_DEFINITION that is no str, a definition that is not     *)
(* JSON under validate or prettify) is never registered; with no_throw on   *)
(* it is skipped, the scan goes on through the remaining entries and        *)
(* returns the registry with every other accepted tool; with no_throw off   *)
(* its error is raised to the caller and the scan returns no registry.      *)
C14_PerFileFailureFollowsPolicy ==
    /\ \A e \in FileIds :
         FailedOnLoad(e)
         => /\ NotRegistered(e)
            /\ no_throw => spc # "raised"
            /\ ~no_throw => RaisedAbout(e) /\ sresult.tools = EmptyDict
    /\ (no_throw /\ spc = "returned" /\ hist.listed["base"] > 0)
       => ReturnsEveryOtherTool /\ WentThroughEveryListing

C14_Witness ==
    /\ ~no_throw
    /\ FailedOnLoad("g5")
    /\ RaisedAbout("g5")
    /\ <<"x">> \in DOMAIN tools

\* A scan argument is of a wrong type or max_depth is negative.
InvalidArgument(a) ==
    \/ a.max_depth < 0
    \/ ~IsNone(a.prefix) /\ ~IsStr(a.prefix)
    \/ ~IsNone(a.suffix) /\ ~IsStr(a.suffix)

\* The base path does not exist or is no directory.
NotFound(a) == a.base_dir \in {"missing", "f1"}

NothingListed == hist = NoHistory /\ stack = <<>> /\ tools = EmptyDict

(* C15: after the argument checks, an invalid scan argument (a prefix or    *)
(* suffix of a wrong type, max_depth < 0) or a base path that does not      *)
(* exist or is no directory raises with no_throw off (TypeError,            *)
(* ValueError, FileNotFoundError) and returns the empty registry with       *)
(* no_throw on, no directory being listed either way; a directory whose     *)
(* listing fails is reported, raises its error with no_throw off, and with  *)
(* no_throw on is skipped while the scan goes through every other listing.  *)
C15_PreconditionsFollowPolicy ==
    /\ (spc # "start" /\ InvalidArgument(args))
       => /\ NothingListed
          /\ IF no_throw
             THEN spc = "returned" /\ sresult.kind = "return"
                  /\ sresult.tools = EmptyDict
             ELSE spc = "raised" /\ sresult.kind = "raise"
                  /\ sresult.error.type \in {"TypeError", "ValueError"}
    /\ (spc # "start" /\ ~InvalidArgument(args) /\ NotFound(args))
       => /\ NothingListed
          /\ IF no_throw
             THEN spc = "returned" /\ sresult.kind = "return"
                  /\ sresult.tools = EmptyDict
             ELSE spc = "raised" /\ sresult.kind = "raise"
                  /\ sresult.error.type = "FileNotFoundError"
    /\ \A d \in DOMAIN Others :
         (Others[d].kind = "unreadable_dir" /\ hist.listed[d] > 0)
         => /\ <<"Cannot list directory", d>> \in diag
            /\ IF no_throw THEN spc # "raised"
               ELSE RaisedAbout(d) /\ sresult.error.type = "OSError"
                    /\ sresult.tools = EmptyDict
    /\ (no_throw /\ spc = "returned" /\ hist.listed["base"] > 0)
       => WentThroughEveryListing /\ sresult.tools = tools

C15_Witness ==
    /\ no_throw /\ spc = "returned"
    /\ hist.listed["dx"] = 1
    /\ hist.listed["d1"] = 1
    /\ "g1" \in hist.seen
    /\ <<"Cannot list directory", "dx">> \in diag

(* C17: prettify_json on a text that is not valid JSON raises RuntimeError  *)
(* with no_throw off and returns the text unchanged with no_throw on.       *)
C17_InvalidJsonRuntimeError ==
    (jpc = "done" /\ ~json_loads(json_text).ok)
    => IF no_throw
       THEN jresult = [kind |-> "return", value |-> json_text]
       ELSE jresult = [kind |-> "raise", value |-> <<"RuntimeError">>]

\* The entry of registry r under name n keeps the text of its file.
KeepsFileText(r, n) == r[n].description = Files[r[n].runner].definition

\* The entry of registry r under name n is JSON text for the value that the
\* text of its file stands for.
IsJsonOfFileText(r, n) ==
    /\ json_loads(r[n].description).ok
    /\ json_loads(r[n].description).val
         = json_loads(Files[r[n].runner].definition).val

(* C18: in the registry a scan returns, with prettify or validate on every  *)
(* description is valid JSON (with prettify, JSON for the value of the      *)
(* file's text, whatever validate is; with validate only, the file's text   *)
(* unchanged); with both off the file's text is stored unchanged without a  *)
(* JSON check, a text that is not JSON included.                            *)
C18_PrettifyImpliesValidate ==
    /\ (spc = "returned" /\ (args.prettify \/ args.validate))
       => \A n \in DOMAIN sresult.tools : IsJsonOfFileText(sresult.tools, n)
    /\ (spc = "returned" /\ ~args.prettify)
       => \A n \in DOMAIN sresult.tools : KeepsFileText(sresult.tools, n)
    /\ (spc \notin {"start", "idle"} /\ args.prettify /\ hist.listed["base"] > 0)
       => validate = FALSE
    /\ (spc = "returned" /\ ~args.prettify /\ ~args.validate
        /\ hist.loads["g5"] > 0)
       => \E n \in DOMAIN sresult.tools :
            /\ sresult.tools[n].runner = "g5"
            /\ sresult.tools[n].description = InvalidDef
            /\ ~json_loads(sresult.tools[n].description).ok

C18_Witness ==
    /\ spc = "returned"
    /\ args.validate /\ ~args.prettify
    /\ hist.loads["g5"] > 0
    /\ \E n \in DOMAIN sresult.tools :
         /\ sresult.tools[n].runner = "g1"
         /\ sresult.tools[n].description = ValidDef2

\* C19 as the specification words it: the depth of a directory that is
\* pushed is below max_depth.
C19_PushedDepthBelowMax ==
    \A p \in hist.pushed : DepthOf(p[1]) < args.max_depth

(* C19: a directory is pushed on the stack only if the depth of the         *)
(* directory whose listing holds it (the base directory has depth 0) is     *)
(* strictly less than max_depth; its own depth, the one it is pushed with,  *)
(* is then at most max_depth.                                               *)
C19_PushedFromBelowMax ==
    /\ \A p \in hist.pushed :
         /\ DepthOf(Others[p[1]].dir) < args.max_depth
         /\ p[2] = DepthOf(p[1])
         /\ p[2] <= args.max_depth
    /\ \A i \in 1..Len(stack) :
         stack[i][1] # "base" => stack[i] \in hist.pushed

C19_Witness ==
    /\ args.max_depth = 2
    /\ <<"d2", 2>> \in hist.pushed
    /\ "d3" \in hist.seen
    /\ <<"d3", 3>> \notin hist.pushed

\* Each directory is listed at most once, a symbolic link is never pushed
\* or listed, and what is listed is no deeper than max_depth.
EachDirectoryOnce ==
    \A d \in Directories :
        /\ hist.listed[d] <= 1
        /\ (d # "base" /\ Others[d].kind = "symlink_dir")
           => /\ hist.listed[d] = 0
              /\ \A p \in hist.pushed : p[1] # d
              /\ \A i \in 1..Len(stack) : stack[i][1] # d
        /\ hist.listed[d] > 0 => DepthOf(d) <= args.max_depth

ScanEnded == spc \in {"returned", "raised"}

(* C20: on the tree of the model, whose symbolic link closes a cycle, and   *)
(* for every max_depth from 0 to MaxDepthArg, the scan ends (it returns or  *)
(* raises), each directory is popped and listed at most once, no symbolic   *)
(* link is pushed or listed, and every listed directory has depth at most   *)
(* max_depth.                                                               *)
C20_TraversalTerminates == []EachDirectoryOnce /\ <>ScanEnded

C20_Witness ==
    /\ spc = "returned"
    /\ args.max_depth = 2
    /\ "lnk" \in hist.seen
    /\ hist.listed["d2"] = 1
    /\ hist.listed["lnk"] = 0

---------------------------------------------------------------------------
(* Claims about the registry of one object over its calls *)

\* The registry holds what the scan that has just returned accepted: its
\* names, and under each name the last file accepted under it with that
\* file's definition.
HoldsWhatScanAccepted ==
    /\ self.tools = sresult.tools
    /\ DOMAIN self.tools = DOMAIN hist.accepted
    /\ \A n \in DOMAIN self.tools :
        /\ self.tools[n].runner = hist.accepted[n][Len(hist.accepted[n])]
        /\ self.tools[n].description = Entry(self.tools[n].runner).definition

\* get_tool_definitions has returned one text for each name of the
\* registry and for no other name: the description of that entry.
OneDescriptorPerKey ==
    /\ DOMAIN life.definitions = DOMAIN self.tools
    /\ \A n \in DOMAIN self.tools :
        life.definitions[n] = self.tools[n].description

\* This step is a scan that returns.
ScanCompletes == spc # "returned" /\ spc' = "returned"

(* C16: over the calls made on one object, self.tools changes only in the  *)
(* step in which a scan returns, and it then holds exactly what that scan   *)
(* accepted; run_tool and get_tool_definitions leave it as it was when     *)
(* they began; get_tool_definitions returns the description of each entry  *)
(* of the registry, under its name, and nothing else.                      *)
C16_RegistryReplacedByScan ==
    /\ [](spc = "returned" => HoldsWhatScanAccepted)
    /\ [](life.op \in {"run", "get"} => self.tools = life.before)
    /\ [](life.op = "get" => OneDescriptorPerKey)
    /\ [][self' # self => ScanCompletes]_vars

\* A rescan has returned a registry that lacks a name the registry held
\* before it, and holds another name under a different file than before.
C16_Witness ==
    /\ life.op = "scan"
    /\ spc = "returned"
    /\ self.tools # EmptyDict
    /\ \E n \in DOMAIN life.before : n \notin DOMAIN self.tools
    /\ \E n \in DOMAIN life.before \cap DOMAIN self.tools :
        life.before[n].runner # self.tools[n].runner

---------------------------------------------------------------------------
(* Claims about retries *)

\* The run_tool call that has just ended resolved no name, or one that is
\* no key of the registry.
ResolutionOrLookupFailed ==
    \/ resolved.by = "none"
    \/ resolved.name.v \notin DOMAIN self.tools

\* File f failed in the scan: it went through the loop body and was not
\* accepted.
FailedInScan(f) ==
    /\ f \in hist.matched
    /\ \A n \in DOMAIN hist.accepted :
        \A i \in 1..Len(hist.accepted[n]) : hist.accepted[n][i] # f

\* This step executes file f.
Loads(f) == hist'.loads[f] > hist.loads[f]

(* C21: nothing is retried.  When a run_tool call has ended, at most one    *)
(* runner call was made in it, the runner having returned or raised, and    *)
(* none if no name was resolved or the resolved name is not registered.    *)
(* Within one scan no file is executed more than once, and a step that     *)
(* executes a file executes one the scan has not been through before, so   *)
(* a file that failed is not executed again.                               *)
C21_NothingRetried ==
    /\ [](life.op = "run"
          => /\ Len(invoked) <= 1
             /\ ResolutionOrLookupFailed => invoked = <<>>)
    /\ [](\A f \in FileIds : hist.loads[f] <= 1)
    /\ [][\A f \in FileIds :
            Loads(f) => f \notin hist.seen /\ ~FailedInScan(f)]_vars

\* A scan that went on after a file failed on execution and another bound
\* no tool_run, each executed once, and then a call whose runner raised.
C21_Witness ==
    /\ spc = "returned"
    /\ FailedInScan("g2") /\ hist.loads["g2"] = 1
    /\ FailedInScan("g3") /\ hist.loads["g3"] = 1
    /\ life.op = "run"
    /\ invoked = <<<<"f5", ArgsA1>>>>
    /\ CallRunner("f5", ArgsA1).kind = "raise"
    /\ ReturnedNone(rresult)

---------------------------------------------------------------------------
(* Claims about the fallback pair after a structured resolution *)

\* The structured request of the call resolves, to a name that is no key of
\* the registry.
StructuredUnregistered ==
    /\ Structured(call.tool_call).by = "structured"
    /\ Structured(call.tool_call).name.v \notin DOMAIN self.tools

\* The call failed as a lookup failure: the ValueError that names the
\* unregistered tool with no_throw off, None with no_throw on.
LookupFailure ==
    IF no_throw THEN ReturnedNone(rresult)
    ELSE /\ RaisedError(rresult, "ValueError")
         /\ rresult.value.msg = "is not a registered tool"
         /\ rresult.value.detail = Structured(call.tool_call).name.v

(* C22: the fallback pair is what run_tool resolves only if the structured  *)
(* request of the call resolves to no name; and a call whose structured     *)
(* request resolves to a name that is not registered ends as a lookup       *)
(* failure and invokes no runner, whatever tool_name and tool_args are,     *)
(* a registered tool_name with valid tool_args included.                    *)
C22_UnregisteredStructuredNoFallback ==
    rpc = "done"
    => /\ resolved.by = "fallback"
          => Structured(call.tool_call).by # "structured"
       /\ StructuredUnregistered => (invoked = <<>> /\ LookupFailure)

=============================================================================
